---- MODULE Spec2Model ----
(***************************************************************************)
(* A model of HttpBackendService (projects/api-mock): the in-process HTTP  *)
(* mock engine.  Strings are TLA+ strings handled character by character   *)
(* (SubSeq, Len, \o), values of item fields are tagged numbers or strings  *)
(* compared the way JavaScript's == and === compare them.                  *)
(***************************************************************************)
EXTENDS Integers, Sequences, FiniteSets, TLC

VARIABLES
  routes,        \* this.apiMockService.getRoutes(): the declared root routes
  config,        \* this.config
  isInited,      \* this.isInited
  rootRoutes,    \* this.rootRoutes
  cachedData,    \* this.cachedData: cacheKey -> MockData
  localStorage,  \* the localStorage entry under config.localStorageKey
  req,           \* the request handled last
  res,           \* what handle() returned for it
  calls,         \* the callbacks invoked while handling it, in order
  routeIndex,    \* handleReq's routeIndex for it
  routeDryMatch, \* the routeDryMatch it resolved (<<>> or one record)
  chainParams,   \* handleReq's chainParams for it (<<>> when none resolved)
  seen,          \* the MockData records cacheDataWithGetMethod returned to it
  written,       \* cacheKey -> the writeableData last written by sendResponse
  inflight,      \* the responses held by delay(), oldest first
  nreq           \* how many requests were handled

vars == <<routes, config, isInited, rootRoutes, cachedData, localStorage,
          req, res, calls, routeIndex, routeDryMatch, chainParams, seen, written,
          inflight, nreq>>

-----------------------------------------------------------------------------
(* Strings, as String.prototype computes them.                             *)

\* const x = value; body(x): the value is computed once
Bind(value, body(_)) == CHOOSE r \in {body(x) : x \in {value}} : TRUE

Min(a, b) == IF a <= b THEN a ELSE b

\* s.charAt(i), i counted from 0
charAt(s, i) == IF i >= 0 /\ i < Len(s) THEN SubSeq(s, i + 1, i + 1) ELSE ""

\* s.substr(0, n)
substr0(s, n) == SubSeq(s, 1, Min(n, Len(s)))

\* s.slice(1)
slice1(s) == SubSeq(s, 2, Len(s))

\* s.slice(-1)
sliceLast(s) == IF Len(s) = 0 THEN "" ELSE SubSeq(s, Len(s), Len(s))

\* position (from 1) of the first occurrence of sep in s at or after i, 0 if none
RECURSIVE indexOfFrom(_, _, _)
indexOfFrom(s, sep, i) ==
  IF i + Len(sep) - 1 > Len(s) THEN 0
  ELSE IF SubSeq(s, i, i + Len(sep) - 1) = sep THEN i
  ELSE indexOfFrom(s, sep, i + 1)

\* s.split(sep), sep not empty
RECURSIVE split(_, _)
split(s, sep) ==
  LET k == indexOfFrom(s, sep, 1)
  IN IF k = 0 THEN <<s>>
     ELSE <<SubSeq(s, 1, k - 1)>> \o split(SubSeq(s, k + Len(sep), Len(s)), sep)

\* parts.join(sep)
RECURSIVE join(_, _)
join(parts, sep) ==
  IF Len(parts) = 0 THEN ""
  ELSE IF Len(parts) = 1 THEN parts[1]
  ELSE parts[1] \o sep \o join(Tail(parts), sep)

\* parts.filter((s) => s): the empty string is falsy
RECURSIVE filterTruthy(_)
filterTruthy(parts) ==
  IF Len(parts) = 0 THEN <<>>
  ELSE (IF Head(parts) = "" THEN <<>> ELSE <<Head(parts)>>) \o filterTruthy(Tail(parts))

\* the character class \w of a regular expression
WordChars ==
  {"a","b","c","d","e","f","g","h","i","j","k","l","m","n","o","p","q","r","s",
   "t","u","v","w","x","y","z","A","B","C","D","E","F","G","H","I","J","K","L",
   "M","N","O","P","Q","R","S","T","U","V","W","X","Y","Z","0","1","2","3","4",
   "5","6","7","8","9","_"}

\* s is not empty and all its characters are in cs
AllIn(s, cs) == Len(s) > 0 /\ \A i \in 1..Len(s) : SubSeq(s, i, i) \in cs

\* /^(?:[\w-]+\/)+:\w+$/.test(path): a path with a primary key, like one/two/:id
pathWithPk(path) ==
  LET parts == split(path, "/")
      n == Len(parts)
  IN /\ n >= 2
     /\ \A i \in 1..(n - 1) : AllIn(parts[i], WordChars \cup {"-"})
     /\ charAt(parts[n], 0) = ":"
     /\ AllIn(slice1(parts[n]), WordChars)

-----------------------------------------------------------------------------
(* Values of item fields and of restId.  A property that is absent from an *)
(* object is absent from the function's domain; reading it gives Undefined.*)

Undefined == [t |-> "undef", n |-> 0, s |-> ""]
Num(k) == [t |-> "num", n |-> k, s |-> ""]
Str(x) == [t |-> "str", n |-> 0, s |-> x]

\* obj[key]
Prop(obj, key) == IF key \in DOMAIN obj THEN obj[key] ELSE Undefined

\* obj with obj[key] = v
SetProp(obj, key, v) == [k \in DOMAIN obj \cup {key} |-> IF k = key THEN v ELSE obj[k]]

Digits == {"0","1","2","3","4","5","6","7","8","9"}

DigitValue(c) ==
  CASE c = "0" -> 0 [] c = "1" -> 1 [] c = "2" -> 2 [] c = "3" -> 3 [] c = "4" -> 4
    [] c = "5" -> 5 [] c = "6" -> 6 [] c = "7" -> 7 [] c = "8" -> 8 [] OTHER -> 9

\* the value of a string of decimal digits
RECURSIVE DecimalValue(_)
DecimalValue(s) ==
  IF Len(s) = 0 THEN 0
  ELSE 10 * DecimalValue(SubSeq(s, 1, Len(s) - 1)) + DigitValue(sliceLast(s))

\* ToNumber(string) is a number (not NaN): the empty string is 0
IsNumeric(s) == s = "" \/ AllIn(s, Digits)

\* String(n) for n >= 0
RECURSIVE NumToStr(_)
NumToStr(n) ==
  LET d == SubSeq("0123456789", (n % 10) + 1, (n % 10) + 1)
  IN IF n < 10 THEN d ELSE NumToStr(n \div 10) \o d

\* `${v}` in a template string
ToStr(v) == IF v.t = "num" THEN NumToStr(v.n) ELSE IF v.t = "str" THEN v.s ELSE "undefined"

\* a == b
LooseEq(a, b) ==
  IF a.t = b.t THEN a = b
  ELSE IF a.t = "num" /\ b.t = "str" THEN IsNumeric(b.s) /\ DecimalValue(b.s) = a.n
  ELSE IF a.t = "str" /\ b.t = "num" THEN IsNumeric(a.s) /\ DecimalValue(a.s) = b.n
  ELSE FALSE

\* a value used as a condition
Truthy(v) == (v.t = "num" /\ v.n # 0) \/ (v.t = "str" /\ v.s # "")

\* JSON.parse(JSON.stringify(obj)) of an object: a property whose value is
\* undefined is dropped
cloneObject(obj) == [k \in {f \in DOMAIN obj : obj[f] # Undefined} |-> obj[k]]

\* clone(data) of an array of objects
clone(items) == [i \in 1..Len(items) |-> cloneObject(items[i])]

\* array.findIndex(pred), counted from 1; 0 is JavaScript's -1
RECURSIVE findIndexFrom(_, _, _, _)
findIndexFrom(items, key, v, i) ==
  IF i > Len(items) THEN 0
  ELSE IF LooseEq(Prop(items[i], key), v) THEN i
  ELSE findIndexFrom(items, key, v, i + 1)

\* writeableData.findIndex((itm) => itm[primaryKey] == id)
findIndex(items, key, v) == findIndexFrom(items, key, v, 1)

\* array.find((obj) => obj[primaryKey] && obj[primaryKey] == restId), as an index
RECURSIVE findTruthyFrom(_, _, _, _)
findTruthyFrom(items, key, v, i) ==
  IF i > Len(items) THEN 0
  ELSE IF Truthy(Prop(items[i], key)) /\ LooseEq(Prop(items[i], key), v) THEN i
  ELSE findTruthyFrom(items, key, v, i + 1)

findTruthy(items, key, v) == findTruthyFrom(items, key, v, 1)

\* items without the item at index i
RemoveAt(items, i) == SubSeq(items, 1, i - 1) \o SubSeq(items, i + 1, Len(items))

Max(a, b) == IF a >= b THEN a ELSE b

\* genId(writeableData, primaryKey)
RECURSIVE genIdMax(_, _)
genIdMax(items, primaryKey) ==
  IF Len(items) = 0 THEN 0
  ELSE LET prevId == genIdMax(SubSeq(items, 1, Len(items) - 1), primaryKey)
           v == Prop(items[Len(items)], primaryKey)
           currId == IF v.t = "num" THEN v.n ELSE prevId
       IN Max(prevId, currId)

\* genId without the increment: the greatest id in use
genId_NoIncrement(items, primaryKey) == genIdMax(items, primaryKey)

genId(items, primaryKey) == genIdMax(items, primaryKey) + 1

-----------------------------------------------------------------------------
(* Routes: ApiMockRootRoute / ApiMockRoute.  dataCallback and              *)
(* responseCallback are "none" (not declared), "notfn" (declared, not a    *)
(* function) or the name of a function; data is what the data callback     *)
(* returns on its GET call; host "" is no host.  The responseCallback      *)
(* "fn" returns the items it is given, "resBody" the objects of the        *)
(* resBody it is given.                                                    *)

Route(path, host, dataCallback, responseCallback, data, children) ==
  [path |-> path, host |-> host, dataCallback |-> dataCallback,
   responseCallback |-> responseCallback, propertiesForList |-> {},
   hasPropertiesForList |-> FALSE, ignoreDataFromLocalStorage |-> FALSE,
   data |-> data, children |-> children]

\* checkRoute(route): TRUE when it returns, FALSE when it throws
RECURSIVE checkRoute(_)
checkRoute(route) ==
  LET isLastRoute == Len(route.children) = 0
      path == route.path
      host == route.host
      hasData == route.dataCallback # "none"
  IN /\ ~(~isLastRoute /\ (~hasData \/ ~pathWithPk(path)))
     /\ ~((hasData /\ ~pathWithPk(path)) \/ (pathWithPk(path) /\ ~hasData))
     /\ ~(path # "" /\ sliceLast(path) = "/")
     /\ ~(hasData /\ route.dataCallback = "notfn")
     /\ ~(route.responseCallback # "none" /\ route.responseCallback = "notfn")
     /\ ~(host # "" /\ sliceLast(host) = "/")
     /\ (~isLastRoute => \A i \in 1..Len(route.children) : checkRoute(route.children[i]))

\* the strings checkRootDuplicates compares: host and path.split(':')[0]
incomingRoutes(rs) ==
  [i \in 1..Len(rs) |->
     join(filterTruthy(<<rs[i].host, split(rs[i].path, ":")[1]>>), " -> ")]

\* checkRootDuplicates(routes): TRUE when it returns, FALSE when it throws
checkRootDuplicates(rs) ==
  LET incoming == incomingRoutes(rs)
  IN \A i, j \in 1..Len(rs) : i < j => incoming[i] # incoming[j]

\* insert e into a list sorted by descending length, after the entries that
\* are at least as long (Array.prototype.sort is stable)
RECURSIVE insertByLength(_, _)
insertByLength(sorted, e) ==
  IF Len(sorted) = 0 THEN <<e>>
  ELSE IF Head(sorted).length >= e.length
       THEN <<Head(sorted)>> \o insertByLength(Tail(sorted), e)
       ELSE <<e>> \o sorted

RECURSIVE sortByLength(_)
sortByLength(entries) ==
  IF Len(entries) = 0 THEN <<>>
  ELSE insertByLength(sortByLength(SubSeq(entries, 1, Len(entries) - 1)),
                      entries[Len(entries)])

\* getRootPaths(routes); index counts from 0 as in the source
getRootPaths(rs) ==
  LET entry(i) ==
        LET part == split(rs[i].path, "/:")[1]
            path == join(filterTruthy(<<rs[i].host, part>>), "/")
        IN [path |-> path, length |-> Len(path), index |-> i - 1]
  IN sortByLength([i \in 1..Len(rs) |-> entry(i)])

\* findRouteIndex comparing only rootRoute.length characters of the URL
RECURSIVE findRouteIndex_NoSeparator(_, _)
findRouteIndex_NoSeparator(rr, url) ==
  IF Len(rr) = 0 THEN -1
  ELSE LET rootRoute == Head(rr)
           partUrl == substr0(url, rootRoute.length)
       IN IF partUrl = rootRoute.path \/ partUrl = rootRoute.path \o "/"
          THEN rootRoute.index
          ELSE findRouteIndex_NoSeparator(Tail(rr), url)

\* findRouteIndex(rootRoutes, url)
RECURSIVE findRouteIndex(_, _)
findRouteIndex(rr, url) ==
  IF Len(rr) = 0 THEN -1
  ELSE LET rootRoute == Head(rr)
           partUrl == substr0(url, rootRoute.length + 1)
       IN IF partUrl = rootRoute.path \/ partUrl = rootRoute.path \o "/"
          THEN rootRoute.index
          ELSE findRouteIndex(Tail(rr), url)

\* init() without the forEach over checkRoute
initPasses_OnlyDuplicates(rs) == checkRootDuplicates(rs)

\* init(): does every check pass?
initPasses(rs) ==
  /\ \A i \in 1..Len(rs) : checkRoute(rs[i])
  /\ checkRootDuplicates(rs)

-----------------------------------------------------------------------------
(* Matching an URL to a route of the tree.                                 *)

\* setRouteDryMatch(route, pathOfRoute, routes) for the URL split into
\* splitedUrl: the RouteDryMatch records it pushes, in the order it pushes them
RECURSIVE setRouteDryMatch(_, _, _, _)
setRouteDryMatch(splitedUrl, route, pathOfRoute, rs) ==
  LET countPartOfUrl == Len(splitedUrl)
      routesNow == Append(rs, route)
      pathNow == join(filterTruthy(<<pathOfRoute, route.path>>), "/")
      splitedRoute == split(pathNow, "/")
      countPartOfRoute == Len(splitedRoute)
      lastElement == splitedRoute[countPartOfRoute]
      RECURSIVE ofChildren(_)
      ofChildren(i) ==
        IF i > Len(route.children) THEN <<>>
        ELSE setRouteDryMatch(splitedUrl, route.children[i], pathNow, routesNow)
             \o ofChildren(i + 1)
  IN IF countPartOfUrl > countPartOfRoute THEN ofChildren(1)
     ELSE IF countPartOfUrl < countPartOfRoute - 1 THEN <<>>
     ELSE IF countPartOfUrl = countPartOfRoute - 1
       THEN IF charAt(lastElement, 0) = ":"
            THEN << [splitedUrl |-> splitedUrl,
                     splitedRoute |-> SubSeq(splitedRoute, 1, countPartOfRoute - 1),
                     hasLastRestId |-> FALSE,
                     lastPrimaryKey |-> slice1(lastElement),
                     routes |-> routesNow] >>
            ELSE <<>>
     ELSE << [splitedUrl |-> splitedUrl,
              splitedRoute |-> splitedRoute,
              hasLastRestId |-> charAt(lastElement, 0) = ":",
              lastPrimaryKey |-> IF charAt(lastElement, 0) = ":"
                                 THEN slice1(lastElement) ELSE "",
              routes |-> routesNow] >>

\* getRouteDryMatch(normalizedUrl, rootRoute)
getRouteDryMatch(normalizedUrl, rootRoute) ==
  setRouteDryMatch(split(normalizedUrl, "/"), rootRoute, rootRoute.host, <<>>)

\* a chain link whose route is undefined (routes[i] past the end of routes)
NoRoute == Route("", "", "none", "none", <<>>, <<>>)

ChainParam(cacheKey, primaryKey, restId, hasRoute, route) ==
  [cacheKey |-> cacheKey, primaryKey |-> primaryKey, restId |-> restId,
   hasRoute |-> hasRoute, route |-> route]

\* the chainParams, partsOfUrl and partsOfRoute that getChainParams's forEach
\* builds over the first k parts of splitedRoute
RECURSIVE chainWalk(_, _)
chainWalk(m, k) ==
  IF k = 0 THEN [chain |-> <<>>, partsOfUrl |-> <<>>, partsOfRoute |-> <<>>]
  ELSE LET prev == chainWalk(m, k - 1)
           part == m.splitedRoute[k]
           urlPart == IF k <= Len(m.splitedUrl) THEN m.splitedUrl[k] ELSE ""
       IN IF charAt(part, 0) = ":"
          THEN LET restId == IF urlPart = "" THEN Undefined ELSE Str(urlPart)
                   cacheKey == join(SubSeq(m.splitedUrl, 1, Min(k - 1, Len(m.splitedUrl))), "/")
                   n == Len(prev.chain) + 1
                   hasRoute == n <= Len(m.routes)
               IN [prev EXCEPT !.chain =
                     Append(@, ChainParam(cacheKey, slice1(part), restId, hasRoute,
                                          IF hasRoute THEN m.routes[n] ELSE NoRoute))]
          ELSE [prev EXCEPT !.partsOfUrl = Append(@, urlPart),
                            !.partsOfRoute = Append(@, part)]

\* getChainParams keeping the restId in the cacheKey of the last link
getChainParams_KeyWithId(m) ==
  LET w == chainWalk(m, Len(m.splitedRoute))
      lastRoute == m.routes[Len(m.routes)]
      n == Len(w.chain)
      chain == IF m.hasLastRestId
               THEN [w.chain EXCEPT ![n].cacheKey = join(m.splitedUrl, "/")]
               ELSE Append(w.chain,
                      ChainParam(join(m.splitedUrl, "/"), m.lastPrimaryKey, Undefined,
                                 TRUE, lastRoute))
  IN IF join(w.partsOfRoute, "/") = join(w.partsOfUrl, "/") THEN chain ELSE <<>>

\* getChainParams(routeDryMatch): <<>> when it returns nothing
getChainParams(m) ==
  LET w == chainWalk(m, Len(m.splitedRoute))
      lastRoute == m.routes[Len(m.routes)]
      chain == IF m.hasLastRestId THEN w.chain
               ELSE Append(w.chain,
                      ChainParam(join(m.splitedUrl, "/"), m.lastPrimaryKey, Undefined,
                                 TRUE, lastRoute))
  IN IF join(w.partsOfRoute, "/") = join(w.partsOfUrl, "/") THEN chain ELSE <<>>

\* req.url.charAt(0) == '/' ? req.url.slice(1) : req.url
normalizedUrl(url) == IF charAt(url, 0) = "/" THEN slice1(url) ELSE url

\* the first routeDryMatch of the group that getChainParams accepts, as the
\* loop of handleReq finds it; <<>> when there is none
RECURSIVE firstChain(_)
firstChain(group) ==
  IF Len(group) = 0 THEN <<>>
  ELSE IF getChainParams(Head(group)) # <<>> THEN <<Head(group)>>
  ELSE firstChain(Tail(group))

-----------------------------------------------------------------------------
(* Configuration, requests and responses.                                  *)

\* new ApiMockConfig(): the defaults of types.ts
DefaultConfig ==
  [passThruUnknownUrl |-> FALSE, cacheFromLocalStorage |-> FALSE,
   postUpdate204 |-> TRUE, postUpdate409 |-> FALSE,
   putUpdate204 |-> TRUE, putUpdate404 |-> TRUE,
   patchUpdate204 |-> TRUE, deleteNotFound404 |-> TRUE]

\* an object without properties
EmptyObject == [k \in {} |-> Undefined]

NoRequest == [method |-> "", url |-> "", body |-> EmptyObject]
NoResponse == [kind |-> "none", status |-> 0, body |-> <<>>, location |-> ""]

\* makeError(req, status, errMsg), thrown into the observable
ErrorResponse(status) ==
  [kind |-> "error", status |-> status, body |-> <<>>, location |-> ""]

\* localStorage.getItem(key) === null
NoStorage == [st |-> "null", data |-> EmptyObject]

-----------------------------------------------------------------------------
(* The CRUD handlers.  Each returns what callRequestMethod returns: an     *)
(* HttpErrorResponse (error, status) or ResponseOptions (status, body as   *)
(* getResponse turns it into an array, the Location header), and items,    *)
(* the writeableData array as the handler leaves it.                       *)

Failure(status, items) ==
  [error |-> TRUE, status |-> status, body |-> <<>>, location |-> "", items |-> items]

Success(status, body, location, items) ==
  [error |-> FALSE, status |-> status, body |-> body, location |-> location, items |-> items]

\* get(req, headers, chainParam, mockData)
get(request, chainParam, mockData) ==
  LET primaryKey == chainParam.primaryKey
      restId == chainParam.restId
      i == findTruthy(mockData.writeableData, primaryKey, restId)
  IN IF restId # Undefined
     THEN IF i = 0 THEN Failure(404, mockData.writeableData)
          ELSE Success(200, <<mockData.writeableData[i]>>, "", mockData.writeableData)
     ELSE Success(200, mockData.readonlyData, "", mockData.writeableData)

\* post that accepts an item URL as well
post_AnyUrl(request, chainParam, writeableData) ==
  LET body == cloneObject(request.body)
      primaryKey == chainParam.primaryKey
      restId == chainParam.restId
      resourceUrl == request.url
      item == IF Prop(body, primaryKey) = Undefined
              THEN SetProp(body, primaryKey, Num(genId(writeableData, primaryKey)))
              ELSE body
      id == item[primaryKey]
      itemIndex == findIndex(writeableData, primaryKey, id)
  IN IF primaryKey = "" THEN Failure(400, writeableData)
     ELSE IF itemIndex = 0
       THEN Success(201, <<item>>, resourceUrl \o "/" \o ToStr(id), Append(writeableData, item))
     ELSE IF config.postUpdate409 THEN Failure(409, writeableData)
     ELSE LET replaced == [writeableData EXCEPT ![itemIndex] = item]
          IN IF config.postUpdate204 THEN Success(204, <<>>, "", replaced)
             ELSE Success(200, <<item>>, "", replaced)

\* post(req, headers, chainParam, writeableData)
post(request, chainParam, writeableData) ==
  LET body == cloneObject(request.body)
      primaryKey == chainParam.primaryKey
      restId == chainParam.restId
      resourceUrl == request.url
      item == IF Prop(body, primaryKey) = Undefined
              THEN SetProp(body, primaryKey, Num(genId(writeableData, primaryKey)))
              ELSE body
      id == item[primaryKey]
      itemIndex == findIndex(writeableData, primaryKey, id)
  IN IF restId # Undefined THEN Failure(405, writeableData)
     ELSE IF primaryKey = "" THEN Failure(400, writeableData)
     ELSE IF itemIndex = 0
       THEN Success(201, <<item>>, resourceUrl \o "/" \o ToStr(id), Append(writeableData, item))
     ELSE IF config.postUpdate409 THEN Failure(409, writeableData)
     ELSE LET replaced == [writeableData EXCEPT ![itemIndex] = item]
          IN IF config.postUpdate204 THEN Success(204, <<>>, "", replaced)
             ELSE Success(200, <<item>>, "", replaced)

\* Object.assign(target, source)
assign(target, source) ==
  [k \in DOMAIN target \cup DOMAIN source |->
     IF k \in DOMAIN source THEN source[k] ELSE target[k]]

\* putOrPatch that creates the missing item whatever the method and the flag
putOrPatch_AlwaysCreates(request, chainParam, writeableData) ==
  LET body == cloneObject(request.body)
      primaryKey == chainParam.primaryKey
      restId == chainParam.restId
      item == IF Prop(body, primaryKey) = Undefined
              THEN SetProp(body, primaryKey, restId) ELSE body
      itemIndex == findIndex(writeableData, primaryKey, restId)
  IN IF primaryKey = "" THEN Failure(400, writeableData)
     ELSE IF restId = Undefined THEN Failure(405, writeableData)
     ELSE IF ~LooseEq(restId, item[primaryKey]) THEN Failure(400, writeableData)
     ELSE IF itemIndex # 0
       THEN Success(204, <<>>, "", [writeableData EXCEPT ![itemIndex] = item])
     ELSE Success(201, <<item>>, "", Append(writeableData, item))

\* putOrPatch(req, headers, chainParam, writeableData)
putOrPatch(request, chainParam, writeableData) ==
  LET update204 == IF request.method = "PUT" THEN config.putUpdate204
                   ELSE config.patchUpdate204
      body == cloneObject(request.body)
      primaryKey == chainParam.primaryKey
      restId == chainParam.restId
      item == IF Prop(body, primaryKey) = Undefined
              THEN SetProp(body, primaryKey, restId) ELSE body
      itemIndex == findIndex(writeableData, primaryKey, restId)
      stored == writeableData[itemIndex]
      kept == IF request.method = "PUT"
              THEN [k \in DOMAIN stored \cap DOMAIN item |-> stored[k]]
              ELSE stored
      updated == [writeableData EXCEPT ![itemIndex] = assign(kept, item)]
  IN IF primaryKey = "" THEN Failure(400, writeableData)
     ELSE IF restId = Undefined THEN Failure(405, writeableData)
     ELSE IF ~LooseEq(restId, item[primaryKey]) THEN Failure(400, writeableData)
     ELSE IF itemIndex # 0
       THEN IF update204 THEN Success(204, <<>>, "", updated)
            ELSE Success(200, <<item>>, "", updated)
     ELSE IF config.putUpdate404 \/ request.method = "PATCH"
       THEN Failure(404, writeableData)
     ELSE Success(201, <<item>>, "", Append(writeableData, item))

\* delete that answers 404 for a missing item whatever deleteNotFound404
delete_Always404(request, chainParam, writeableData) ==
  LET primaryKey == chainParam.primaryKey
      id == chainParam.restId
      itemIndex == IF id # Undefined THEN findIndex(writeableData, primaryKey, id) ELSE 0
  IN IF primaryKey = "" THEN Failure(400, writeableData)
     ELSE IF itemIndex = 0 THEN Failure(404, writeableData)
     ELSE Success(204, <<>>, "", RemoveAt(writeableData, itemIndex))

\* delete(req, headers, chainParam, writeableData)
delete(request, chainParam, writeableData) ==
  LET primaryKey == chainParam.primaryKey
      id == chainParam.restId
      itemIndex == IF id # Undefined THEN findIndex(writeableData, primaryKey, id) ELSE 0
  IN IF primaryKey = "" THEN Failure(400, writeableData)
     ELSE IF id = Undefined \/ (itemIndex = 0 /\ config.deleteNotFound404)
       THEN Failure(404, writeableData)
     ELSE IF itemIndex # 0 THEN Success(204, <<>>, "", RemoveAt(writeableData, itemIndex))
     ELSE Success(204, <<>>, "", writeableData)

\* callRequestMethod that hands POST to the handler of PUT
callRequestMethod_PostAsPut(request, chainParam, mockData) ==
  CASE request.method = "GET" -> get(request, chainParam, mockData)
    [] request.method \in {"POST", "PUT", "PATCH"} ->
         putOrPatch(request, chainParam, mockData.writeableData)
    [] request.method = "DELETE" -> delete(request, chainParam, mockData.writeableData)
    [] OTHER -> Failure(405, mockData.writeableData)

\* callRequestMethod(req, chainParam, mockData)
callRequestMethod(request, chainParam, mockData) ==
  CASE request.method = "GET" -> get(request, chainParam, mockData)
    [] request.method = "POST" -> post(request, chainParam, mockData.writeableData)
    [] request.method \in {"PUT", "PATCH"} ->
         putOrPatch(request, chainParam, mockData.writeableData)
    [] request.method = "DELETE" -> delete(request, chainParam, mockData.writeableData)
    [] OTHER -> Failure(405, mockData.writeableData)

-----------------------------------------------------------------------------
(* The store: cachedData and its copy in localStorage.  The operators      *)
(* below thread m = [cachedData, localStorage, calls, seen, written, fresh] *)
(* through the calls of one request; fresh holds the keys of the records   *)
(* that the request has made again from localStorage; threw tells that an  *)
(* exception left the call.                                                *)

MockData(writeableData, readonlyData) ==
  [wellFormed |-> TRUE, writeableData |-> writeableData, readonlyData |-> readonlyData]

\* an entry of the parsed localStorage object that has no writeableData array
Malformed == [wellFormed |-> FALSE, writeableData |-> <<>>, readonlyData |-> <<>>]

\* pickAllPropertiesAsGetters(pickObj, d): d narrowed to the properties of
\* the template, or all of d without a template
pickAllPropertiesAsGetters(route, d) ==
  IF route.hasPropertiesForList
  THEN [k \in DOMAIN d \cap route.propertiesForList |-> d[k]]
  ELSE d

\* bindReadonlyData(chainParam, writeableData), on cachedData cd
bindReadonlyData(cd, chainParam, writeableData) ==
  LET readonlyData == [i \in 1..Len(writeableData) |->
                         pickAllPropertiesAsGetters(chainParam.route, writeableData[i])]
  IN [cd EXCEPT ![chainParam.cacheKey].readonlyData = readonlyData]

\* route.dataCallback(opts): the callback "fn" returns the route's data on
\* its GET call and the items it is given on every other call; the callback
\* "throws" throws an Error on every call, "throwsOnWrite" on every call but
\* the GET call
dataCallback(route, httpMethod, items) ==
  IF httpMethod = "GET" THEN route.data ELSE items

DataCall(cacheKey, httpMethod) ==
  [callback |-> "data", cacheKey |-> cacheKey, httpMethod |-> httpMethod]

ResponseCall(cacheKey, httpMethod) ==
  [callback |-> "response", cacheKey |-> cacheKey, httpMethod |-> httpMethod]

\* applyDataFromLocalStorage(chainParam)
applyDataFromLocalStorage(m, chainParam) ==
  LET cacheKey == chainParam.cacheKey
      ls == m.localStorage
  IN IF ls.st = "garbage" THEN [m EXCEPT !.localStorage = NoStorage]
     ELSE IF ls.st = "null" \/ cacheKey \notin DOMAIN ls.data THEN m
     ELSE IF ls.data[cacheKey].wellFormed
       THEN [m EXCEPT !.cachedData =
               bindReadonlyData(
                 SetProp(m.cachedData, cacheKey,
                         MockData(ls.data[cacheKey].writeableData, <<>>)),
                 chainParam, ls.data[cacheKey].writeableData),
                      !.fresh = @ \cup {cacheKey}]
     ELSE [m EXCEPT !.cachedData = SetProp(m.cachedData, cacheKey, Malformed),
                    !.localStorage = NoStorage,
                    !.fresh = @ \cup {cacheKey}]

\* setToLocalStorage that keeps the entry localStorage already has
setToLocalStorage_KeepsEntry(m, cacheKey) ==
  LET ls == m.localStorage
      parsed == IF ls.st = "null" THEN EmptyObject ELSE ls.data
      entry == MockData(clone(m.cachedData[cacheKey].writeableData), <<>>)
  IN IF ls.st = "garbage" THEN [m EXCEPT !.localStorage = NoStorage]
     ELSE IF cacheKey \in DOMAIN parsed THEN m
     ELSE [m EXCEPT !.localStorage =
             [st |-> "object", data |-> SetProp(parsed, cacheKey, entry)]]

\* setToLocalStorage(cacheKey)
setToLocalStorage(m, cacheKey) ==
  LET ls == m.localStorage
      parsed == IF ls.st = "null" THEN EmptyObject ELSE ls.data
      entry == MockData(clone(m.cachedData[cacheKey].writeableData), <<>>)
  IN IF ls.st = "garbage" THEN [m EXCEPT !.localStorage = NoStorage]
     ELSE [m EXCEPT !.localStorage =
             [st |-> "object", data |-> SetProp(parsed, cacheKey, entry)]]

Returned(m, mockData) == [m |-> m, threw |-> FALSE, mockData |-> mockData]
Thrown(m) == [m |-> m, threw |-> TRUE, mockData |-> Malformed]

\* cacheDataWithGetMethod that calls the dataCallback whether or not a record
\* exists
cacheDataWithGetMethod_AlwaysPopulates(m, chainParam) ==
  LET cacheKey == chainParam.cacheKey
      route == chainParam.route
      writeableData == IF route.dataCallback # "none"
                       THEN dataCallback(route, "GET", <<>>) ELSE <<>>
      populated(m1) ==
        [m1 EXCEPT
           !.calls = IF route.dataCallback # "none"
                     THEN Append(@, DataCall(cacheKey, "GET")) ELSE @,
           !.cachedData = bindReadonlyData(
                            SetProp(@, cacheKey, MockData(writeableData, <<>>)),
                            chainParam, writeableData)]
  IN IF ~chainParam.hasRoute
     THEN IF config.cacheFromLocalStorage \/ cacheKey \notin DOMAIN m.cachedData
          THEN Thrown(m) ELSE Returned(m, m.cachedData[cacheKey])
     ELSE Bind(IF config.cacheFromLocalStorage /\ ~route.ignoreDataFromLocalStorage
               THEN applyDataFromLocalStorage(m, chainParam) ELSE m,
            LAMBDA m1 :
          IF cacheKey \notin DOMAIN m1.cachedData /\ route.dataCallback = "throws"
          THEN Thrown([m1 EXCEPT !.calls = Append(@, DataCall(cacheKey, "GET"))])
          ELSE
          Bind(IF config.cacheFromLocalStorage
                 THEN setToLocalStorage(populated(m1), cacheKey)
               ELSE populated(m1),
            LAMBDA m3 :
          Returned([m3 EXCEPT !.seen = Append(@, [cacheKey |-> cacheKey,
                                                   mockData |-> m3.cachedData[cacheKey]])],
                   m3.cachedData[cacheKey])))

\* cacheDataWithGetMethod(chainParam, parents, ...)
cacheDataWithGetMethod(m, chainParam) ==
  LET cacheKey == chainParam.cacheKey
      route == chainParam.route
      writeableData == IF route.dataCallback # "none"
                       THEN dataCallback(route, "GET", <<>>) ELSE <<>>
      populated(m1) ==
        [m1 EXCEPT
           !.calls = IF route.dataCallback # "none"
                     THEN Append(@, DataCall(cacheKey, "GET")) ELSE @,
           !.cachedData = bindReadonlyData(
                            SetProp(@, cacheKey, MockData(writeableData, <<>>)),
                            chainParam, writeableData)]
  IN IF ~chainParam.hasRoute
     THEN IF config.cacheFromLocalStorage \/ cacheKey \notin DOMAIN m.cachedData
          THEN Thrown(m) ELSE Returned(m, m.cachedData[cacheKey])
     ELSE Bind(IF config.cacheFromLocalStorage /\ ~route.ignoreDataFromLocalStorage
               THEN applyDataFromLocalStorage(m, chainParam) ELSE m,
            LAMBDA m1 :
          IF cacheKey \notin DOMAIN m1.cachedData /\ route.dataCallback = "throws"
          THEN Thrown([m1 EXCEPT !.calls = Append(@, DataCall(cacheKey, "GET"))])
          ELSE
          Bind(IF cacheKey \in DOMAIN m1.cachedData THEN m1
               ELSE IF config.cacheFromLocalStorage
                 THEN setToLocalStorage(populated(m1), cacheKey)
               ELSE populated(m1),
            LAMBDA m3 :
          Returned([m3 EXCEPT !.seen = Append(@, [cacheKey |-> cacheKey,
                                                   mockData |-> m3.cachedData[cacheKey]])],
                   m3.cachedData[cacheKey])))

\* getParents(req, chainParams) over the first k links of the chain:
\* notFound is its 404, parents the items found so far
RECURSIVE getParentsUpTo(_, _, _)
getParentsUpTo(m, chain, k) ==
  IF k = 0 THEN [m |-> m, threw |-> FALSE, notFound |-> FALSE, parents |-> <<>>]
  ELSE LET chainParam == chain[k]
       IN Bind(getParentsUpTo(m, chain, k - 1), LAMBDA prev :
            IF prev.threw \/ prev.notFound THEN prev
            ELSE Bind(cacheDataWithGetMethod(prev.m, chainParam), LAMBDA got :
                   LET i == findTruthy(got.mockData.writeableData,
                                       chainParam.primaryKey, chainParam.restId)
                   IN IF got.threw \/ ~got.mockData.wellFormed
                        THEN [prev EXCEPT !.m = got.m, !.threw = TRUE]
                      ELSE IF i = 0 THEN [prev EXCEPT !.m = got.m, !.notFound = TRUE]
                      ELSE [prev EXCEPT !.m = got.m,
                                        !.parents = Append(@, got.mockData.writeableData[i])]))

\* getParents without its loop: no parent is looked up
getParents_NoLookup(m, chain) == getParentsUpTo(m, chain, 0)

getParents(m, chain) == getParentsUpTo(m, chain, Len(chain) - 1)

Answer(m, response) == [m |-> m, threw |-> FALSE, res |-> response]
Throw(m) == [m |-> m, threw |-> TRUE, res |-> ErrorResponse(500)]

\* getResponse(req, chainParam, parents, queryParams, responseOptions): the
\* body is the clone of responseOptions.body, or what the responseCallback
\* returns, which for "resBody" is responseOptions.body itself
getResponse(m, request, chainParam, responseOptions) ==
  LET clonedBody == clone(responseOptions.body)
      resOrBody == IF chainParam.route.responseCallback = "resBody"
                   THEN responseOptions.body ELSE clonedBody
      called == chainParam.route.responseCallback # "none"
      status == IF responseOptions.status = 0 THEN 200 ELSE responseOptions.status
      m1 == [m EXCEPT !.calls = IF called
                                THEN Append(@, ResponseCall(chainParam.cacheKey,
                                                            request.method))
                                ELSE @]
  IN IF chainParam.route.responseCallback = "throws" THEN Throw(m1)
     ELSE Answer(m1, [kind |-> "response", status |-> status, body |-> resOrBody,
                      location |-> responseOptions.location])

\* does the handler of the request's method read mockData.writeableData?
\* (a record without that array makes it throw there)
readsItems(request, chainParam) ==
  LET primaryKey == chainParam.primaryKey
      restId == chainParam.restId
      body == cloneObject(request.body)
  IN CASE request.method = "GET" -> restId # Undefined
       [] request.method = "POST" -> restId = Undefined /\ primaryKey # ""
       [] request.method \in {"PUT", "PATCH"} ->
            /\ primaryKey # "" /\ restId # Undefined
            /\ (Prop(body, primaryKey) = Undefined \/ LooseEq(restId, body[primaryKey]))
       [] request.method = "DELETE" -> primaryKey # "" /\ restId # Undefined
       [] OTHER -> FALSE

\* sendResponse(req, chainParams)
sendResponse(m, request, chain) ==
  LET chainParam == chain[Len(chain)]
      replaced(cached, writeableData) ==
        [cached.m EXCEPT
           !.calls = Append(@, DataCall(chainParam.cacheKey, request.method)),
           !.cachedData = bindReadonlyData(
                            SetProp(@, chainParam.cacheKey, MockData(writeableData, <<>>)),
                            chainParam, writeableData),
           !.written = SetProp(@, chainParam.cacheKey, writeableData)]
      \* the handler has changed mockData.writeableData in place and the
      \* dataCallback throws: readonlyData is not bound again; its entries
      \* read the items they were made of, which PUT and PATCH change
      inPlace(cached, writeableData) ==
        [cached.m EXCEPT
           !.calls = Append(@, DataCall(chainParam.cacheKey, request.method)),
           !.cachedData =
              IF request.method \in {"PUT", "PATCH"}
                 /\ Len(writeableData) = Len(cached.mockData.writeableData)
              THEN bindReadonlyData(
                     SetProp(@, chainParam.cacheKey, MockData(writeableData, <<>>)),
                     chainParam, writeableData)
              ELSE [@ EXCEPT ![chainParam.cacheKey].writeableData = writeableData]]
      saved(cached, writeableData) ==
        IF config.cacheFromLocalStorage
        THEN setToLocalStorage(replaced(cached, writeableData), chainParam.cacheKey)
        ELSE replaced(cached, writeableData)
  IN Bind(getParents(m, chain), LAMBDA found :
       IF found.threw THEN Throw(found.m)
       ELSE IF found.notFound THEN Answer(found.m, ErrorResponse(404))
       ELSE IF ~chainParam.hasRoute THEN Throw(found.m)
       ELSE IF chainParam.route.dataCallback = "none"
         THEN getResponse(found.m, request, chainParam, Success(0, <<>>, "", <<>>))
       ELSE Bind(cacheDataWithGetMethod(found.m, chainParam), LAMBDA cached :
         IF cached.threw THEN Throw(cached.m)
         ELSE IF ~cached.mockData.wellFormed /\ readsItems(request, chainParam)
           THEN Throw(cached.m)
         ELSE Bind(callRequestMethod(request, chainParam, cached.mockData),
                LAMBDA responseOptions :
           IF responseOptions.error
             THEN Answer(cached.m, ErrorResponse(responseOptions.status))
           ELSE IF request.method = "GET"
             THEN getResponse(cached.m, request, chainParam, responseOptions)
           ELSE IF chainParam.route.dataCallback \in {"throws", "throwsOnWrite"}
             THEN Throw(inPlace(cached, responseOptions.items))
           ELSE getResponse(
                  saved(cached, dataCallback(chainParam.route, request.method,
                                             responseOptions.items)),
                  request, chainParam, responseOptions))))

\* send404Error that never forwards
send404Error_Always404(m) == Answer(m, ErrorResponse(404))

\* send404Error(req)
send404Error(m) ==
  IF config.passThruUnknownUrl
  THEN Answer(m, [kind |-> "passthru", status |-> 0, body |-> <<>>, location |-> ""])
  ELSE Answer(m, ErrorResponse(404))

-----------------------------------------------------------------------------
(* The route matcher on its own: init() and the matching steps of          *)
(* handleReq, over root routes and URLs drawn from small pools.            *)

MaxRoots == 2
MaxSegs == 4

Leaf(path, host, callback) == Route(path, host, callback, "none", <<>>, <<>>)

RootPool ==
  { Route("posts/:id", "", "fn", "none", <<>>, <<Leaf("comments/:commentId", "", "fn")>>),
    Leaf("posts/featured/:id", "", "fn"),
    Leaf("posts-other/:id", "", "fn"),
    Leaf("posts", "", "none"),
    Leaf("featured/:id", "posts", "fn"),
    Leaf("posts/:id", "", "none"),
    Leaf("posts/:id/:sub", "", "none"),
    Leaf("comments/", "", "none") }

RECURSIVE SeqsUpTo(_, _)
SeqsUpTo(S, n) ==
  IF n = 0 THEN {<<>>}
  ELSE LET shorter == SeqsUpTo(S, n - 1)
       IN shorter \cup {Append(q, x) : q \in shorter, x \in S}

RootLists == SeqsUpTo(RootPool, MaxRoots)

SegPool == {"", "posts", "posts-other", "featured", "comments", "1"}

UrlPool == {join(q, "/") : q \in SeqsUpTo(SegPool, MaxSegs) \ {<<>>}}

InitRoute ==
  /\ routes \in RootLists
  /\ config = DefaultConfig
  /\ isInited = FALSE
  /\ rootRoutes = <<>>
  /\ cachedData = EmptyObject
  /\ localStorage = NoStorage
  /\ req = NoRequest
  /\ res = NoResponse
  /\ calls = <<>>
  /\ routeIndex = -1
  /\ routeDryMatch = <<>>
  /\ chainParams = <<>>
  /\ seen = <<>>
  /\ written = EmptyObject
  /\ inflight = <<>>
  /\ nreq = 0

\* init(): the checks, then rootRoutes and isInited; a failed check throws,
\* which handle() answers with a 500
InitRoutes ==
  /\ ~isInited
  /\ res.kind = "none"
  /\ IF initPasses(routes)
     THEN /\ rootRoutes' = getRootPaths(routes)
          /\ isInited' = TRUE
          /\ res' = res
     ELSE /\ res' = ErrorResponse(500)
          /\ UNCHANGED <<rootRoutes, isInited>>
  /\ UNCHANGED <<routes, config, cachedData, localStorage, req, calls,
                 routeIndex, routeDryMatch, chainParams, seen, written, inflight, nreq>>

\* handleReq up to the choice of chainParams, for one URL
Match(url) ==
  /\ isInited
  /\ nreq = 0
  /\ LET nurl == normalizedUrl(url)
         idx == findRouteIndex(rootRoutes, nurl)
         found == IF idx = -1 THEN <<>>
                  ELSE firstChain(getRouteDryMatch(nurl, routes[idx + 1]))
     IN /\ routeIndex' = idx
        /\ routeDryMatch' = found
        /\ chainParams' = IF found = <<>> THEN <<>> ELSE getChainParams(found[1])
  /\ req' = [NoRequest EXCEPT !.url = url]
  /\ nreq' = 1
  /\ UNCHANGED <<routes, config, isInited, rootRoutes, cachedData, localStorage,
                 res, calls, seen, written, inflight>>

NextRoute == InitRoutes \/ \E url \in UrlPool : Match(url)

SpecRoute == InitRoute /\ [][NextRoute]_vars

-----------------------------------------------------------------------------
(* The engine: handle(req) on a declared route tree, and the emission of   *)
(* the observables it returns.                                             *)

MaxRequests == 3
MaxInFlight == 1
MaxFlips == 1

Posts ==
  << [id |-> Num(1), title |-> Str("first"), author |-> Str("ann")],
     [id |-> Num(2), title |-> Str("second")] >>

\* api/posts/:id -> comments/:id; the list of posts shows id and title only;
\* api/status is a route without data (no dataCallback, no primary key)
PostsTree ==
  << [Route("api/posts/:id", "", "fn", "none", Posts,
            <<Route("comments/:id", "", "fn", "fn", <<>>, <<>>)>>)
       EXCEPT !.hasPropertiesForList = TRUE, !.propertiesForList = {"id", "title"}],
     Leaf("api/status", "", "none") >>

\* a route with a primary key and no dataCallback: checkRoute throws
InvalidTree == << Leaf("api/posts/:id", "", "none") >>

\* callbacks that throw: the dataCallback of api/posts, the responseCallback
\* of api/status
ThrowingTree ==
  << Leaf("api/posts/:id", "", "throws"),
     Route("api/status", "", "none", "throws", <<>>, <<>>) >>

Trees == {PostsTree, InvalidTree, ThrowingTree}

\* the configurations that differ from the defaults in at most MaxFlips options
Configs ==
  {c \in [DOMAIN DefaultConfig -> BOOLEAN] :
     Cardinality({k \in DOMAIN DefaultConfig : c[k] # DefaultConfig[k]}) <= MaxFlips}

Urls ==
  {"api/posts", "api/posts/1", "api/posts/01", "api/posts/3", "api/posts/1/comments",
   "api/posts/1/comments/1", "api/posts/2/comments", "api/posts/3/comments",
   "api/status", "api/other"}

Bodies ==
  { EmptyObject,
    [id |-> Num(1)],
    [title |-> Str("new")],
    [id |-> Num(2), title |-> Str("new")],
    [id |-> Undefined, title |-> Str("new")] }

Init ==
  /\ routes \in Trees
  /\ config \in Configs
  /\ isInited = FALSE
  /\ rootRoutes = <<>>
  /\ cachedData = EmptyObject
  /\ localStorage = NoStorage
  /\ req = NoRequest
  /\ res = NoResponse
  /\ calls = <<>>
  /\ routeIndex = -1
  /\ routeDryMatch = <<>>
  /\ chainParams = <<>>
  /\ seen = <<>>
  /\ written = EmptyObject
  /\ inflight = <<>>
  /\ nreq = 0

\* handleReq(req) after init(): the answer and the matching it rests on
handleReq(m, request, rr) ==
  LET nurl == normalizedUrl(request.url)
  IN Bind(findRouteIndex(rr, nurl), LAMBDA idx :
     Bind(IF idx = -1 THEN <<>>
          ELSE firstChain(getRouteDryMatch(nurl, routes[idx + 1])), LAMBDA found :
     Bind(IF found = <<>> THEN <<>> ELSE getChainParams(found[1]), LAMBDA chain :
       [out |-> IF chain = <<>> THEN send404Error(m) ELSE sendResponse(m, request, chain),
        routeIndex |-> idx, routeDryMatch |-> found, chainParams |-> chain])))

\* an exception that leaves handle
Uncaught == [kind |-> "exception", status |-> 0, body |-> <<>>, location |-> ""]

\* a handle whose catch throws the exception again
catch_Rethrow(out) == IF out.threw THEN Uncaught ELSE out.res

\* the catch of handle: makeError(req, 500, err.message) for an exception of
\* handleReq, its observable otherwise
catch(out) == IF out.threw THEN ErrorResponse(500) ELSE out.res

\* a held response that shares no object with the store
NoShare ==
  [cacheKey |-> "", getters |-> FALSE,
   route |-> [hasPropertiesForList |-> FALSE, propertiesForList |-> {}],
   refs |-> <<>>]

\* the itemIndex that the handler of a write looks up in writeableData
itemIndexOf(request, chainParam, writeableData) ==
  LET primaryKey == chainParam.primaryKey
      item == cloneObject(request.body)
      id == IF request.method # "POST" THEN chainParam.restId
            ELSE IF Prop(item, primaryKey) = Undefined
              THEN Num(genId(writeableData, primaryKey))
            ELSE item[primaryKey]
  IN IF primaryKey = "" \/ id = Undefined THEN 0
     ELSE findIndex(writeableData, primaryKey, id)

\* what the response shares with the store.  getResponse hands the clone of
\* the body to the responseCallback as items and responseOptions.body itself
\* as resBody: a body made of resBody holds the item that get found, the
\* readonly objects of the list, whose getters read the items, or the item
\* that post or putOrPatch has put into writeableData.  refs[e] is the place
\* in writeableData of the item behind the e-th object of the body, 0 for an
\* object that is not in the store; old and new are writeableData before
\* and after the handler.
shares(request, chainParam, response, old, new) ==
  IF response.kind # "response" \/ response.body = <<>> THEN NoShare
  ELSE IF chainParam.route.responseCallback # "resBody" THEN NoShare
  ELSE [cacheKey |-> chainParam.cacheKey,
        getters |-> request.method = "GET" /\ chainParam.restId = Undefined,
        route |-> [hasPropertiesForList |-> chainParam.route.hasPropertiesForList,
                   propertiesForList |-> chainParam.route.propertiesForList],
        refs |-> IF request.method = "GET"
                 THEN IF chainParam.restId = Undefined
                      THEN [e \in 1..Len(response.body) |-> e]
                      ELSE <<findTruthy(old, chainParam.primaryKey, chainParam.restId)>>
                 ELSE IF Len(new) > Len(old) THEN <<Len(new)>>
                 ELSE IF request.method = "POST"
                   THEN <<itemIndexOf(request, chainParam, old)>>
                 ELSE <<0>>]

\* a held response after a later request: the objects it shares with the
\* store are the ones the request works on.  A record made again from
\* localStorage has new items; putOrPatch changes the item it finds in place
\* (Object.assign), post puts another object in its place, delete takes it
\* out of the array (splice).
touch(entry, request, chainParam, fresh, wrote, old, new) ==
  LET shared == entry.share
      j == itemIndexOf(request, chainParam, old)
      value(r) == IF shared.getters
                  THEN pickAllPropertiesAsGetters(shared.route, new[r])
                  ELSE new[r]
  IN IF shared.refs = <<>> THEN entry
     ELSE IF shared.cacheKey \in fresh
       THEN [entry EXCEPT !.share = NoShare]
     ELSE IF ~wrote \/ shared.cacheKey # chainParam.cacheKey THEN entry
     ELSE IF request.method \in {"PUT", "PATCH"} /\ Len(new) = Len(old)
       THEN [entry EXCEPT !.res.body =
               [e \in 1..Len(shared.refs) |->
                  IF shared.refs[e] = 0 THEN entry.res.body[e]
                  ELSE value(shared.refs[e])]]
     ELSE IF request.method = "POST" /\ Len(new) = Len(old)
       THEN [entry EXCEPT !.share.refs =
               [e \in 1..Len(shared.refs) |->
                  IF shared.refs[e] = j THEN 0 ELSE shared.refs[e]]]
     ELSE IF request.method = "DELETE" /\ Len(new) < Len(old)
       THEN [entry EXCEPT !.share.refs =
               [e \in 1..Len(shared.refs) |->
                  IF shared.refs[e] = j THEN 0
                  ELSE IF shared.refs[e] > j THEN shared.refs[e] - 1
                  ELSE shared.refs[e]]]
     ELSE entry

\* the observables in flight after handleReq has answered the request with
\* response: the ones held before it, and its own
hold(h, request, response) ==
  LET chain == h.chainParams
      m == h.out.m
      chainParam == chain[Len(chain)]
      reached == /\ chain # <<>>
                 /\ m.seen # <<>>
                 /\ m.seen[Len(m.seen)].cacheKey = chainParam.cacheKey
                 /\ m.seen[Len(m.seen)].mockData.wellFormed
      old == m.seen[Len(m.seen)].mockData.writeableData
      new == m.cachedData[chainParam.cacheKey].writeableData
      wrote == /\ request.method # "GET"
               /\ \E c \in 1..Len(m.calls) :
                     m.calls[c] = DataCall(chainParam.cacheKey, request.method)
  IN IF ~reached
     THEN Append([i \in 1..Len(inflight) |->
                    IF inflight[i].share.cacheKey \in m.fresh
                    THEN [inflight[i] EXCEPT !.share = NoShare] ELSE inflight[i]],
                 [req |-> request, res |-> response, share |-> NoShare])
     ELSE Append([i \in 1..Len(inflight) |->
                    touch(inflight[i], request, chainParam, m.fresh, wrote, old, new)],
                 [req |-> request, res |-> response,
                  share |-> shares(request, chainParam, response, old, new)])

\* handle(req): init() on the first call, handleReq, and the catch that turns
\* an exception into a 500; the observable it returns joins inflight, which
\* holds fewer than limit observables
Dispatch(limit, method, url, body) ==
  /\ nreq < MaxRequests
  /\ Len(inflight) < limit
  /\ LET request == [method |-> method, url |-> url, body |-> body]
         m == [cachedData |-> cachedData, localStorage |-> localStorage,
               calls |-> <<>>, seen |-> <<>>, written |-> written, fresh |-> {}]
         rr == IF isInited THEN rootRoutes ELSE getRootPaths(routes)
     IN /\ req' = request
        /\ IF isInited \/ initPasses(routes)
           THEN \E h \in {handleReq(m, request, rr)} :
                \E response \in {catch(h.out)} :
                /\ isInited' = TRUE
                /\ rootRoutes' = rr
                /\ cachedData' = h.out.m.cachedData
                /\ localStorage' = h.out.m.localStorage
                /\ calls' = h.out.m.calls
                /\ seen' = h.out.m.seen
                /\ written' = h.out.m.written
                /\ res' = response
                /\ routeIndex' = h.routeIndex
                /\ routeDryMatch' = h.routeDryMatch
                /\ chainParams' = h.chainParams
                /\ inflight' = hold(h, request, response)
           ELSE /\ res' = ErrorResponse(500)
                /\ calls' = <<>>
                /\ seen' = <<>>
                /\ routeIndex' = -1
                /\ routeDryMatch' = <<>>
                /\ chainParams' = <<>>
                /\ inflight' = Append(inflight, [req |-> request,
                                                 res |-> ErrorResponse(500),
                                                 share |-> NoShare])
                /\ UNCHANGED <<isInited, rootRoutes, cachedData, localStorage, written>>
  /\ nreq' = nreq + 1
  /\ UNCHANGED <<routes, config>>

\* handle(req) with at most MaxInFlight observables that have not emitted
Handle(method, url, body) == Dispatch(MaxInFlight, method, url, body)

Get(url) == Handle("GET", url, EmptyObject)
Post(url, body) == Handle("POST", url, body)
Put(url, body) == Handle("PUT", url, body)
Patch(url, body) == Handle("PATCH", url, body)
Delete(url) == Handle("DELETE", url, EmptyObject)
Other(url) == Handle("HEAD", url, EmptyObject)

\* an error observable emits when it is subscribed to, a response after the
\* delay: a held response leaves after the responses dispatched before it
CanEmit(i) ==
  \/ inflight[i].res.kind # "response"
  \/ \A j \in 1..(i - 1) : inflight[j].res.kind # "response"

\* the observable at position i emits and completes; the request's record
\* goes with the last one
Emit(i) ==
  /\ i \in 1..Len(inflight)
  /\ CanEmit(i)
  /\ inflight' = RemoveAt(inflight, i)
  /\ IF i = Len(inflight)
     THEN /\ req' = NoRequest
          /\ res' = NoResponse
          /\ calls' = <<>>
          /\ seen' = <<>>
          /\ routeIndex' = -1
          /\ routeDryMatch' = <<>>
          /\ chainParams' = <<>>
     ELSE UNCHANGED <<req, res, calls, seen, routeIndex, routeDryMatch, chainParams>>
  /\ UNCHANGED <<routes, config, isInited, rootRoutes, cachedData, localStorage,
                 written, nreq>>

Next ==
  \/ \E url \in Urls : Get(url)
  \/ \E url \in Urls, body \in Bodies : Post(url, body)
  \/ \E url \in Urls, body \in Bodies : Put(url, body)
  \/ \E url \in Urls, body \in Bodies : Patch(url, body)
  \/ \E url \in Urls : Delete(url)
  \/ \E url \in Urls : Other(url)
  \/ \E i \in 1..MaxInFlight : Emit(i)

Spec == Init /\ [][Next]_vars

-----------------------------------------------------------------------------
(* The engine with cacheFromLocalStorage, and a localStorage that other    *)
(* parties write as well (another tab, an earlier version of the           *)
(* application, the user); URLs the routes do not cover, with and without  *)
(* passThruUnknownUrl.                                                     *)

\* the text under localStorageKey is not JSON
Garbage == [st |-> "garbage", data |-> EmptyObject]

\* JSON of an object whose entry for 'api/posts' has no writeableData array
BadEntry == [st |-> "object", data |-> SetProp(EmptyObject, "api/posts", Malformed)]

\* JSON of an object with a well-formed entry for 'api/posts': one other post
OtherPosts ==
  [st |-> "object",
   data |-> SetProp(EmptyObject, "api/posts",
                    MockData(<< [id |-> Num(7), title |-> Str("other")] >>, <<>>))]

StoredValues == {Garbage, BadEntry, OtherPosts}

\* 'api/other' is owned by no root; 'api/posts/1/other' is owned by the root
\* 'api/posts' and matches no route of its tree
StoreUrls ==
  {"api/posts", "api/posts/1", "api/posts/1/comments", "api/posts/1/other", "api/other"}

StoreBodies == {EmptyObject, [title |-> Str("new")]}

InitStore ==
  /\ routes = PostsTree
  /\ config \in {[DefaultConfig EXCEPT !.cacheFromLocalStorage = TRUE,
                                       !.passThruUnknownUrl = b] : b \in BOOLEAN}
  /\ isInited = FALSE
  /\ rootRoutes = <<>>
  /\ cachedData = EmptyObject
  /\ localStorage = NoStorage
  /\ req = NoRequest
  /\ res = NoResponse
  /\ calls = <<>>
  /\ routeIndex = -1
  /\ routeDryMatch = <<>>
  /\ chainParams = <<>>
  /\ seen = <<>>
  /\ written = EmptyObject
  /\ inflight = <<>>
  /\ nreq = 0

\* localStorage.setItem(localStorageKey, value) by another party, between two
\* requests
StorageChange(value) ==
  /\ nreq < MaxRequests
  /\ inflight = <<>>
  /\ localStorage # value
  /\ localStorage' = value
  /\ UNCHANGED <<routes, config, isInited, rootRoutes, cachedData, req, res, calls,
                 routeIndex, routeDryMatch, chainParams, seen, written, inflight, nreq>>

NextStore ==
  \/ \E value \in StoredValues : StorageChange(value)
  \/ \E url \in StoreUrls : Get(url)
  \/ \E url \in StoreUrls, body \in StoreBodies : Post(url, body)
  \/ \E url \in StoreUrls, body \in StoreBodies : Put(url, body)
  \/ \E url \in StoreUrls, body \in StoreBodies : Patch(url, body)
  \/ \E url \in StoreUrls : Delete(url)
  \/ \E url \in StoreUrls : Other(url)
  \/ \E i \in 1..MaxInFlight : Emit(i)

SpecStore == InitStore /\ [][NextStore]_vars

-----------------------------------------------------------------------------
(* One collection, 'api/posts', whose dataCallback returns items with ids  *)
(* of every kind: absent, negative, zero, positive, numeric and other      *)
(* strings.                                                                *)

MaxItems == 2
MaxIdRequests == 2

IdValues == {Num(-1), Num(0), Num(1), Num(2), Str("3"), Str("x")}

ItemPool == {EmptyObject} \cup {[id |-> v] : v \in IdValues}

ItemLists == UNION {[1..n -> ItemPool] : n \in 0..MaxItems}

IdTree(data) == << Route("api/posts/:id", "", "fn", "none", data, <<>>) >>

IdConfigs ==
  { DefaultConfig,
    [DefaultConfig EXCEPT !.putUpdate404 = FALSE],
    [DefaultConfig EXCEPT !.postUpdate409 = TRUE] }

IdUrls == {"api/posts", "api/posts/0", "api/posts/1", "api/posts/3"}

IdBodies == {EmptyObject, [id |-> Num(0)]}

InitIds ==
  /\ routes \in {IdTree(data) : data \in ItemLists}
  /\ config \in IdConfigs
  /\ isInited = FALSE
  /\ rootRoutes = <<>>
  /\ cachedData = EmptyObject
  /\ localStorage = NoStorage
  /\ req = NoRequest
  /\ res = NoResponse
  /\ calls = <<>>
  /\ routeIndex = -1
  /\ routeDryMatch = <<>>
  /\ chainParams = <<>>
  /\ seen = <<>>
  /\ written = EmptyObject
  /\ inflight = <<>>
  /\ nreq = 0

NextIds ==
  \/ \E url \in IdUrls : nreq < MaxIdRequests /\ Get(url)
  \/ \E url \in IdUrls, body \in IdBodies : nreq < MaxIdRequests /\ Post(url, body)
  \/ \E url \in IdUrls, body \in IdBodies : nreq < MaxIdRequests /\ Put(url, body)
  \/ \E url \in IdUrls, body \in IdBodies : nreq < MaxIdRequests /\ Patch(url, body)
  \/ \E url \in IdUrls : nreq < MaxIdRequests /\ Delete(url)
  \/ \E i \in 1..MaxInFlight : Emit(i)

SpecIds == InitIds /\ [][NextIds]_vars

-----------------------------------------------------------------------------
(* Requests dispatched while the responses of earlier ones are held by     *)
(* delay(config.delay).                                                    *)

MaxHeld == 2

DelayUrls == {"api/posts", "api/posts/1", "api/posts/3"}

\* api/posts/:id with a responseCallback that answers with resBody
SharingTree == << Route("api/posts/:id", "", "fn", "resBody", Posts, <<>>) >>

InitDelay ==
  /\ routes \in {PostsTree, SharingTree}
  /\ config \in {DefaultConfig, [DefaultConfig EXCEPT !.putUpdate204 = FALSE]}
  /\ isInited = FALSE
  /\ rootRoutes = <<>>
  /\ cachedData = EmptyObject
  /\ localStorage = NoStorage
  /\ req = NoRequest
  /\ res = NoResponse
  /\ calls = <<>>
  /\ routeIndex = -1
  /\ routeDryMatch = <<>>
  /\ chainParams = <<>>
  /\ seen = <<>>
  /\ written = EmptyObject
  /\ inflight = <<>>
  /\ nreq = 0

NextDelay ==
  \/ \E url \in DelayUrls : Dispatch(MaxHeld, "GET", url, EmptyObject)
  \/ \E url \in DelayUrls : Dispatch(MaxHeld, "POST", url, [title |-> Str("new")])
  \/ \E url \in DelayUrls : Dispatch(MaxHeld, "PUT", url, [title |-> Str("new")])
  \/ \E url \in DelayUrls : Dispatch(MaxHeld, "DELETE", url, EmptyObject)
  \/ \E i \in 1..MaxHeld : Emit(i)

SpecDelay == InitDelay /\ [][NextDelay]_vars

-----------------------------------------------------------------------------
(* Callbacks that throw during a write: the responseCallback of one tree,  *)
(* the dataCallback of the other on its calls after the GET call.          *)

ResponseThrowsTree == << Route("api/posts/:id", "", "fn", "throws", Posts, <<>>) >>

DataThrowsTree == << Route("api/posts/:id", "", "throwsOnWrite", "none", Posts, <<>>) >>

ThrowUrls == {"api/posts", "api/posts/1", "api/posts/3"}

ThrowBodies == {EmptyObject, [title |-> Str("new")]}

InitThrow ==
  /\ routes \in {ResponseThrowsTree, DataThrowsTree}
  /\ config \in {DefaultConfig, [DefaultConfig EXCEPT !.putUpdate404 = FALSE]}
  /\ isInited = FALSE
  /\ rootRoutes = <<>>
  /\ cachedData = EmptyObject
  /\ localStorage = NoStorage
  /\ req = NoRequest
  /\ res = NoResponse
  /\ calls = <<>>
  /\ routeIndex = -1
  /\ routeDryMatch = <<>>
  /\ chainParams = <<>>
  /\ seen = <<>>
  /\ written = EmptyObject
  /\ inflight = <<>>
  /\ nreq = 0

NextThrow ==
  \/ \E url \in ThrowUrls : Get(url)
  \/ \E url \in ThrowUrls, body \in ThrowBodies : Post(url, body)
  \/ \E url \in ThrowUrls, body \in ThrowBodies : Put(url, body)
  \/ \E url \in ThrowUrls, body \in ThrowBodies : Patch(url, body)
  \/ \E url \in ThrowUrls : Delete(url)
  \/ \E i \in 1..MaxInFlight : Emit(i)

SpecThrow == InitThrow /\ [][NextThrow]_vars

-----------------------------------------------------------------------------
(* Claims about the route matcher (SpecRoute).                             *)

\* the URL equals the root path or begins with the root path followed by '/'
OwnedBy(url, path) ==
  \/ url = path
  \/ /\ Len(url) > Len(path)
     /\ SubSeq(url, 1, Len(path)) = path
     /\ SubSeq(url, Len(path) + 1, Len(path) + 1) = "/"

Matched == isInited /\ nreq > 0

\* C1: findRouteIndex returns the index of a longest root path that owns the
\* URL (the URL equals it or begins with it followed by '/'), and -1 when no
\* root path owns the URL.
C1_LongestOwningRoot ==
  Matched =>
    LET url == normalizedUrl(req.url)
        owners == {i \in 1..Len(rootRoutes) : OwnedBy(url, rootRoutes[i].path)}
    IN IF owners = {} THEN routeIndex = -1
       ELSE \E i \in owners :
              /\ rootRoutes[i].index = routeIndex
              /\ \A j \in owners : Len(rootRoutes[j].path) <= Len(rootRoutes[i].path)

\* roots 'posts' and 'posts/featured' declared in this order, URL
\* 'posts/featured/1' resolved to the second
C1_Witness ==
  /\ Matched
  /\ Len(routes) = 2
  /\ routes[1].path = "posts"
  /\ routes[2].path = "posts/featured/:id"
  /\ req.url = "posts/featured/1"
  /\ routeIndex = 1

\* the full path of the route a routeDryMatch stands for, split on '/'
fullRouteParts(m) ==
  split(join(filterTruthy(<<m.routes[1].host>>
                          \o [i \in 1..Len(m.routes) |-> m.routes[i].path]), "/"), "/")

Resolved == Matched /\ chainParams # <<>>

\* the URL resolved to a route whose path ends in a ':name' token
EndsInId == Resolved /\ charAt(fullRouteParts(routeDryMatch[1])[Len(fullRouteParts(routeDryMatch[1]))], 0) = ":"

LastLink == chainParams[Len(chainParams)]
UrlParts == split(normalizedUrl(req.url), "/")
ItemUrl == EndsInId /\ Len(UrlParts) = Len(fullRouteParts(routeDryMatch[1]))
CollectionUrl == EndsInId /\ Len(UrlParts) = Len(fullRouteParts(routeDryMatch[1])) - 1

\* C2 as stated: on an item URL the last link's restId is the URL's trailing
\* segment, on a collection URL it has none; the cacheKey is the collection URL.
C2_TrailingSegmentIsRestId ==
  /\ ItemUrl =>
       /\ LastLink.restId = Str(UrlParts[Len(UrlParts)])
       /\ LastLink.cacheKey = join(SubSeq(UrlParts, 1, Len(UrlParts) - 1), "/")
  /\ CollectionUrl =>
       /\ LastLink.restId = Undefined
       /\ LastLink.cacheKey = normalizedUrl(req.url)

\* C2 amended: the restId is the trailing segment when that segment is not
\* empty; an URL ending in '/' (an empty trailing segment) binds no restId.
C2_NonEmptyTrailingSegmentIsRestId ==
  /\ ItemUrl =>
       /\ LastLink.restId = IF UrlParts[Len(UrlParts)] = "" THEN Undefined
                            ELSE Str(UrlParts[Len(UrlParts)])
       /\ LastLink.cacheKey = join(SubSeq(UrlParts, 1, Len(UrlParts) - 1), "/")
  /\ CollectionUrl =>
       /\ LastLink.restId = Undefined
       /\ LastLink.cacheKey = normalizedUrl(req.url)

\* 'posts/1/comments/1' resolved against posts/:id -> comments/:commentId
C2_Witness ==
  /\ ItemUrl
  /\ req.url = "posts/1/comments/1"
  /\ Len(chainParams) = 2
  /\ LastLink.restId = Str("1")
  /\ LastLink.cacheKey = "posts/1/comments"

\* C10 as stated: after init() has passed, the paths of rootRoutes are
\* pairwise distinct.
C10_RootPathsDistinct ==
  isInited =>
    \A i, j \in 1..Len(rootRoutes) :
       i # j => rootRoutes[i].path # rootRoutes[j].path

-----------------------------------------------------------------------------
(* Claims about the engine (Spec).  A state that follows handle() keeps    *)
(* the request, its answer and the records the request read (seen) until   *)
(* the answer is emitted.                                                  *)

Served == req # NoRequest

\* the request read the record of every link of its chain
ReadAll == Served /\ chainParams # <<>> /\ Len(seen) = Len(chainParams)

\* the addressed collection as the request found it, and as it left it
Before == seen[Len(seen)].mockData.writeableData
After == cachedData[LastLink.cacheKey].writeableData

\* the request body as the handlers receive it
Body == cloneObject(req.body)

HasId(items, primaryKey, id) ==
  \E i \in 1..Len(items) : LooseEq(Prop(items[i], primaryKey), id)

\* C3: a POST on a collection URL with a body that omits 'id', on a collection
\* whose items have the ids 1..n in order, is answered 201 and appends the
\* body with id n+1; a POST whose body carries the id of an existing item,
\* with postUpdate409, is answered 409 and leaves the collection unchanged.
C3_PostAssignsNextId ==
  (/\ ReadAll
   /\ req.method = "POST"
   /\ LastLink.restId = Undefined
   /\ LastLink.primaryKey = "id") =>
    LET n == Len(Before)
    IN /\ (/\ Prop(Body, "id") = Undefined
           /\ \A i \in 1..n : Prop(Before[i], "id") = Num(i)) =>
            /\ res.kind = "response"
            /\ res.status = 201
            /\ After = Append(Before, SetProp(Body, "id", Num(n + 1)))
       /\ (/\ Prop(Body, "id") # Undefined
           /\ HasId(Before, "id", Prop(Body, "id"))
           /\ config.postUpdate409) =>
            /\ res = ErrorResponse(409)
            /\ After = Before

\* the empty collection 'api/posts/1/comments' got the items 1 and 2 from two
\* POSTs; the third POST, with body {id: 1}, is answered 409
C3_Witness ==
  /\ ReadAll
  /\ nreq = 3
  /\ req.method = "POST"
  /\ req.url = "api/posts/1/comments"
  /\ Prop(Body, "id") = Num(1)
  /\ config.postUpdate409
  /\ res = ErrorResponse(409)
  /\ Len(Before) = 2
  /\ Prop(Before[1], "id") = Num(1)
  /\ Prop(Before[2], "id") = Num(2)
  /\ After = Before

\* C4: PUT or PATCH on an item URL whose id matches no item (the body
\* carrying no other id): PUT with putUpdate404 = false appends the item and
\* is answered 201; PUT with putUpdate404 = true and PATCH are answered 404
\* and leave the collection unchanged.
C4_MissingItemPutPatch ==
  (/\ ReadAll
   /\ req.method \in {"PUT", "PATCH"}
   /\ LastLink.primaryKey # ""
   /\ LastLink.restId # Undefined
   /\ ~HasId(Before, LastLink.primaryKey, LastLink.restId)
   /\ \/ Prop(Body, LastLink.primaryKey) = Undefined
      \/ LooseEq(LastLink.restId, Prop(Body, LastLink.primaryKey))) =>
    LET primaryKey == LastLink.primaryKey
        item == IF Prop(Body, primaryKey) = Undefined
                THEN SetProp(Body, primaryKey, LastLink.restId) ELSE Body
    IN IF req.method = "PUT" /\ ~config.putUpdate404
       THEN /\ res.kind = "response"
            /\ res.status = 201
            /\ After = Append(Before, item)
       ELSE /\ res = ErrorResponse(404)
            /\ After = Before

\* PUT 'api/posts/3' with putUpdate404 = false created the third post
C4_Witness ==
  /\ ReadAll
  /\ req.method = "PUT"
  /\ req.url = "api/posts/3"
  /\ ~config.putUpdate404
  /\ res.kind = "response"
  /\ res.status = 201
  /\ Len(Before) = 2
  /\ Len(After) = 3
  /\ LooseEq(After[3].id, Str("3"))

\* the first item of the collection with the id of the URL
Target ==
  CHOOSE i \in 1..Len(Before) :
    /\ LooseEq(Prop(Before[i], LastLink.primaryKey), LastLink.restId)
    /\ \A j \in 1..(i - 1) :
         ~LooseEq(Prop(Before[j], LastLink.primaryKey), LastLink.restId)

\* C5 as stated: an update of an existing item sets the fields of the body;
\* PATCH leaves every stored field the body does not mention unchanged, PUT
\* leaves exactly the fields of the body plus the primary key; the other
\* items are unchanged.
C5_PatchMergesPutReplaces ==
  (/\ ReadAll
   /\ req.method \in {"PUT", "PATCH"}
   /\ res.kind = "response"
   /\ LastLink.restId # Undefined
   /\ HasId(Before, LastLink.primaryKey, LastLink.restId)) =>
    /\ Len(After) = Len(Before)
    /\ \A j \in 1..Len(Before) : j # Target => After[j] = Before[j]
    /\ \A k \in DOMAIN Body : Prop(After[Target], k) = Body[k]
    /\ req.method = "PATCH" =>
         /\ DOMAIN After[Target] = DOMAIN Before[Target] \cup DOMAIN Body
         /\ \A k \in DOMAIN Before[Target] \ DOMAIN Body :
              After[Target][k] = Before[Target][k]
    /\ req.method = "PUT" =>
         DOMAIN After[Target] = DOMAIN Body \cup {LastLink.primaryKey}

\* C6: DELETE on a collection URL is answered 404; on an id that matches no
\* item it is answered 404 with deleteNotFound404 and 204 without, the
\* collection unchanged; on an id that matches an item it removes that item,
\* keeps the others in order and is answered 204.
C6_Delete ==
  (/\ ReadAll
   /\ req.method = "DELETE"
   /\ LastLink.primaryKey # "") =>
    IF LastLink.restId = Undefined
    THEN res = ErrorResponse(404) /\ After = Before
    ELSE IF ~HasId(Before, LastLink.primaryKey, LastLink.restId)
    THEN /\ After = Before
         /\ IF config.deleteNotFound404 THEN res = ErrorResponse(404)
            ELSE res.kind = "response" /\ res.status = 204
    ELSE /\ res.kind = "response"
         /\ res.status = 204
         /\ After = RemoveAt(Before, Target)

\* DELETE 'api/posts/3' with deleteNotFound404 = false: 204, nothing removed
C6_Witness ==
  /\ ReadAll
  /\ req.method = "DELETE"
  /\ req.url = "api/posts/3"
  /\ ~config.deleteNotFound404
  /\ res.kind = "response"
  /\ res.status = 204
  /\ Len(Before) = 2
  /\ After = Before

\* C7: a request reads, for every cache key a write request has replaced, the
\* list that was written, and a readonlyData with one entry per item of that
\* list, in order, narrowed to the route's propertiesForList.
C7_ReadAfterWrite ==
  [][nreq' = nreq + 1 =>
       \A i \in 1..Len(seen') :
          seen'[i].cacheKey \in DOMAIN written =>
            LET L == written[seen'[i].cacheKey]
                route == chainParams'[i].route
                mockData == seen'[i].mockData
            IN /\ mockData.writeableData = L
               /\ Len(mockData.readonlyData) = Len(L)
               /\ \A j \in 1..Len(L) :
                    mockData.readonlyData[j] =
                      IF route.hasPropertiesForList
                      THEN [k \in DOMAIN L[j] \cap route.propertiesForList |-> L[j][k]]
                      ELSE L[j]]_vars

\* with localStorage in use, GET 'api/posts' after a POST that made the list
\* three posts long reads the three posts and answers their id and title
C7_Witness ==
  /\ ReadAll
  /\ nreq = 2
  /\ config.cacheFromLocalStorage
  /\ req.method = "GET"
  /\ req.url = "api/posts"
  /\ "api/posts" \in DOMAIN written
  /\ Len(written["api/posts"]) = 3
  /\ Before = written["api/posts"]
  /\ res.kind = "response"
  /\ Len(res.body) = 3
  /\ \A j \in 1..3 : DOMAIN res.body[j] = {"id", "title"}

\* C8: a request on a nested URL with a parent link whose id no item of the
\* parent collection has is answered 404, calls no callback of the addressed
\* route and leaves its record as it was; every request on a nested URL
\* addresses the record keyed by its own collection URL, calls callbacks of
\* its chain only and changes no record outside its chain.
C8_ParentsResolvedFirst ==
  [][(nreq' = nreq + 1 /\ Len(chainParams') >= 2) =>
       LET chain == chainParams'
           last == chain[Len(chain)]
           keys == {chain[k].cacheKey : k \in 1..Len(chain)}
           parts == split(normalizedUrl(req'.url), "/")
           missing == \E k \in 1..(Len(chain) - 1) :
                        /\ chain[k].cacheKey \in DOMAIN cachedData'
                        /\ ~HasId(cachedData'[chain[k].cacheKey].writeableData,
                                  chain[k].primaryKey, chain[k].restId)
       IN /\ missing =>
               /\ res' = ErrorResponse(404)
               /\ \A c \in 1..Len(calls') : calls'[c].cacheKey # last.cacheKey
               /\ last.cacheKey \in DOMAIN cachedData' =>
                    /\ last.cacheKey \in DOMAIN cachedData
                    /\ cachedData'[last.cacheKey] = cachedData[last.cacheKey]
          /\ last.cacheKey = IF last.restId = Undefined THEN join(parts, "/")
                             ELSE join(SubSeq(parts, 1, Len(parts) - 1), "/")
          /\ \A c \in 1..Len(calls') : calls'[c].cacheKey \in keys
          /\ \A K \in DOMAIN cachedData' :
               K \notin keys => /\ K \in DOMAIN cachedData
                                /\ cachedData'[K] = cachedData[K]]_vars

\* post 1 was removed by a DELETE; GET 'api/posts/1/comments' is answered 404
\* and no record of the comments exists
C8_Witness ==
  /\ Served
  /\ nreq = 2
  /\ req.method = "GET"
  /\ req.url = "api/posts/1/comments"
  /\ res = ErrorResponse(404)
  /\ "api/posts" \in DOMAIN written
  /\ ~HasId(written["api/posts"], "id", Str("1"))
  /\ "api/posts/1/comments" \notin DOMAIN cachedData
  /\ \A c \in 1..Len(calls) : calls[c].cacheKey = "api/posts"

-----------------------------------------------------------------------------
(* Claims about validated route trees (SpecRoute).                          *)

\* the last segment of the path is a ':name' token
EndsInPkToken(path) ==
  LET parts == split(path, "/")
      last == parts[Len(parts)]
  IN Len(last) > 1 /\ charAt(last, 0) = ":"

\* the node and the nodes below it have a dataCallback exactly when their
\* path ends in a ':name' token, and have both when they have children
RECURSIVE WellFormedNode(_)
WellFormedNode(route) ==
  /\ (route.dataCallback # "none") <=> EndsInPkToken(route.path)
  /\ Len(route.children) > 0 =>
       /\ route.dataCallback # "none"
       /\ EndsInPkToken(route.path)
  /\ \A i \in 1..Len(route.children) : WellFormedNode(route.children[i])

\* C11 as stated: after init() has passed, every node of the tree has a
\* dataCallback exactly when its path ends in a ':name' token, a node with
\* children has both, and every link of a resolved chain has a defined route.
C11_ValidatedTreeWellFormed ==
  isInited =>
    /\ \A i \in 1..Len(routes) : WellFormedNode(routes[i])
    /\ \A k \in 1..Len(chainParams) : chainParams[k].hasRoute

CrudMethods == {"GET", "POST", "PUT", "PATCH", "DELETE"}

\* some parent link of the chain names an id that no item of the parent
\* collection, as cached in data, has
ParentMissing(chain, data) ==
  \E k \in 1..(Len(chain) - 1) :
     /\ chain[k].cacheKey \in DOMAIN data
     /\ ~HasId(data[chain[k].cacheKey].writeableData,
               chain[k].primaryKey, chain[k].restId)

\* C12 as stated: a request that resolves to a chain, whose parents exist and
\* whose method is none of GET, POST, PUT, PATCH, DELETE, is answered 405 on
\* every matched route, and the items of every collection stay as they were.
C12_OtherMethod405 ==
  [][(/\ nreq' = nreq + 1
      /\ chainParams' # <<>>
      /\ req'.method \notin CrudMethods
      /\ ~ParentMissing(chainParams', cachedData')) =>
       /\ res' = ErrorResponse(405)
       /\ \A K \in DOMAIN cachedData :
            cachedData'[K].writeableData = cachedData[K].writeableData]_vars

\* C13 as stated: POST, PUT, PATCH and DELETE on a URL that resolves to a
\* route without a primary key are answered 400.
C13_NoPrimaryKey400 ==
  (/\ Served
   /\ chainParams # <<>>
   /\ req.method \in {"POST", "PUT", "PATCH", "DELETE"}
   /\ LastLink.primaryKey = ""
   /\ ~ParentMissing(chainParams, cachedData)) =>
    res = ErrorResponse(400)

\* C14: on a route with a primary key, once the parents are found, POST on a
\* URL that binds an id and PUT or PATCH on a URL that binds none are answered
\* 405 and leave the addressed collection as the request found it.
C14_WrongUrlForm405 ==
  (/\ ReadAll
   /\ LastLink.primaryKey # ""
   /\ \/ req.method = "POST" /\ LastLink.restId # Undefined
      \/ req.method \in {"PUT", "PATCH"} /\ LastLink.restId = Undefined) =>
    /\ res = ErrorResponse(405)
    /\ After = Before

\* POST 'api/posts/1' with a body is answered 405 and the two posts are kept
C14_Witness ==
  /\ ReadAll
  /\ req.method = "POST"
  /\ req.url = "api/posts/1"
  /\ LastLink.restId = Str("1")
  /\ Prop(Body, "title") = Str("new")
  /\ res = ErrorResponse(405)
  /\ Before = Posts
  /\ After = Posts

\* the ids a later request may look an item up with
LookupIds == {Str("1"), Str("01"), Str("2"), Str("3"), Num(1), Num(2), Num(3)}

\* C15 as stated: a PUT or PATCH whose body carries a primary-key value
\* different from the id of the URL is answered 400 and changes no item,
\* whether or not an item with either id exists; and no PUT or PATCH changes
\* the primary key under which an existing item is found.
C15_PrimaryKeyKept ==
  (/\ ReadAll
   /\ req.method \in {"PUT", "PATCH"}
   /\ LastLink.primaryKey # ""
   /\ LastLink.restId # Undefined) =>
    LET primaryKey == LastLink.primaryKey
    IN /\ (/\ Prop(Body, primaryKey) # Undefined
           /\ ~LooseEq(LastLink.restId, Prop(Body, primaryKey))) =>
            /\ res = ErrorResponse(400)
            /\ After = Before
       /\ \A id \in LookupIds :
            findIndex(Before, primaryKey, id) # 0 =>
              findIndex(After, primaryKey, id) = findIndex(Before, primaryKey, id)

\* the first item of the collection with the id of the request body
Existing ==
  CHOOSE i \in 1..Len(Before) :
    /\ LooseEq(Prop(Before[i], LastLink.primaryKey), Prop(Body, LastLink.primaryKey))
    /\ \A j \in 1..(i - 1) :
         ~LooseEq(Prop(Before[j], LastLink.primaryKey), Prop(Body, LastLink.primaryKey))

\* C16: a POST on a collection URL whose body carries the id of an existing
\* item: with postUpdate409 it is answered 409 and the collection is
\* unchanged; without, the item is replaced by the request body at its
\* position (the length and the other items unchanged) and the answer is 204
\* with postUpdate204, 200 with the item otherwise.
C16_PostExistingId ==
  (/\ ReadAll
   /\ req.method = "POST"
   /\ LastLink.primaryKey # ""
   /\ LastLink.restId = Undefined
   /\ Prop(Body, LastLink.primaryKey) # Undefined
   /\ HasId(Before, LastLink.primaryKey, Prop(Body, LastLink.primaryKey))) =>
    IF config.postUpdate409
    THEN /\ res = ErrorResponse(409)
         /\ After = Before
    ELSE /\ After = [Before EXCEPT ![Existing] = Body]
         /\ res.kind = "response"
         /\ IF config.postUpdate204
            THEN res.status = 204 /\ res.body = <<>>
            ELSE res.status = 200 /\ res.body = <<Body>>

\* POST 'api/posts' with body {id: 2, title: 'new'} and neither flag set:
\* the second post is replaced by the body, the first is kept, 200 with the item
C16_Witness ==
  /\ ReadAll
  /\ req.method = "POST"
  /\ req.url = "api/posts"
  /\ ~config.postUpdate409
  /\ ~config.postUpdate204
  /\ Body = [id |-> Num(2), title |-> Str("new")]
  /\ Before = Posts
  /\ After = << Posts[1], Body >>
  /\ res.kind = "response"
  /\ res.status = 200
  /\ res.body = <<Body>>

\* the request called a callback that throws
ThrowingCall ==
  \E c \in 1..Len(calls) : \E k \in 1..Len(chainParams) :
     /\ chainParams[k].hasRoute
     /\ chainParams[k].cacheKey = calls[c].cacheKey
     /\ \/ calls[c].callback = "data" /\ chainParams[k].route.dataCallback = "throws"
        \/ calls[c].callback = "response" /\ chainParams[k].route.responseCallback = "throws"

C23_UpdateAnswersStoredItem ==
  (/\ ReadAll
   /\ req.method \in {"PUT", "PATCH"}
   /\ LastLink.primaryKey # ""
   /\ LastLink.restId # Undefined
   /\ HasId(Before, LastLink.primaryKey, LastLink.restId)
   /\ \/ Prop(Body, LastLink.primaryKey) = Undefined
      \/ LooseEq(LastLink.restId, Prop(Body, LastLink.primaryKey))
   /\ ~(IF req.method = "PUT" THEN config.putUpdate204 ELSE config.patchUpdate204)) =>
    /\ res.kind = "response"
    /\ res.status = 200
    /\ res.body = << After[Target] >>

\* C25: a request answered 400, 404, 405 or 409 leaves the items of every
\* collection that had a record as they were; the records it adds are those
\* of its chain, populated with what the route's dataCallback returns on its
\* GET call.
C25_PolicyErrorsChangeNoItem ==
  [][(/\ nreq' = nreq + 1
      /\ res'.kind = "error"
      /\ res'.status \in {400, 404, 405, 409}) =>
       /\ \A K \in DOMAIN cachedData :
            /\ K \in DOMAIN cachedData'
            /\ cachedData'[K].writeableData = cachedData[K].writeableData
       /\ \A K \in DOMAIN cachedData' \ DOMAIN cachedData :
            \E k \in 1..Len(chainParams') :
               /\ chainParams'[k].cacheKey = K
               /\ cachedData'[K].writeableData = chainParams'[k].route.data]_vars

\* after a POST has made the collection three posts long, PUT 'api/posts/1'
\* with body {id: 2, title: 'new'} is answered 400 and the three posts stay
C25_Witness ==
  /\ ReadAll
  /\ nreq = 2
  /\ req.method = "PUT"
  /\ req.url = "api/posts/1"
  /\ Body = [id |-> Num(2), title |-> Str("new")]
  /\ res = ErrorResponse(400)
  /\ calls = <<>>
  /\ "api/posts" \in DOMAIN written
  /\ Len(written["api/posts"]) = 3
  /\ Before = written["api/posts"]
  /\ After = Before

-----------------------------------------------------------------------------
(* Claims about the store with localStorage (SpecStore).                   *)

\* localStorage holds text that is not JSON or an entry without item list
BadStorage ==
  \/ localStorage.st = "garbage"
  \/ /\ localStorage.st = "object"
     /\ \E K \in DOMAIN localStorage.data : ~localStorage.data[K].wellFormed

\* C18 as stated: a request that finds unparseable text or a malformed entry
\* for its cache key in localStorage discards it: afterwards no record of
\* cachedData is malformed, localStorage holds nothing bad, and the request,
\* like every later one, is not answered 500.
C18_MalformedStorageIsCacheMiss ==
  (Served /\ chainParams # <<>>) =>
    /\ \A K \in DOMAIN cachedData : cachedData[K].wellFormed
    /\ ~BadStorage
    /\ res # ErrorResponse(500)

\* C19 as stated: a request that reads a cache key for which cachedData holds
\* a record reads the items of that record, whatever localStorage holds by
\* then, and does not call the dataCallback with GET for that key.
C19_PopulatedRecordIsServed ==
  [][nreq' = nreq + 1 =>
       \A i \in 1..Len(seen') :
          LET cacheKey == seen'[i].cacheKey
          IN cacheKey \in DOMAIN cachedData =>
               /\ seen'[i].mockData.writeableData = cachedData[cacheKey].writeableData
               /\ \A c \in 1..Len(calls') : calls'[c] # DataCall(cacheKey, "GET")]_vars

\* some root path owns the URL of the request
RootOwns ==
  \E i \in 1..Len(routes) :
     OwnedBy(normalizedUrl(req.url), split(routes[i].path, "/:")[1])

\* C20: with a validated tree, a request is handed to the real backend exactly
\* when passThruUnknownUrl is set and no root path owns its URL or the URL
\* resolves to no chain; without the option such a request is answered 404; a
\* request whose URL resolves to a chain is never handed on.
C20_ForwardOnlyUnknown ==
  (Served /\ isInited) =>
    LET unknown == ~RootOwns \/ chainParams = <<>>
    IN /\ res.kind = "passthru" <=> (config.passThruUnknownUrl /\ unknown)
       /\ (unknown /\ ~config.passThruUnknownUrl) => res = ErrorResponse(404)
       /\ chainParams # <<>> => res.kind # "passthru"

\* with passThruUnknownUrl, 'api/posts/1/other', which the root 'api/posts'
\* owns and no route matches, is handed to the real backend
C20_Witness ==
  /\ Served
  /\ isInited
  /\ config.passThruUnknownUrl
  /\ req.url = "api/posts/1/other"
  /\ RootOwns
  /\ routeIndex # -1
  /\ chainParams = <<>>
  /\ res.kind = "passthru"

-----------------------------------------------------------------------------
(* Claims about ids (SpecIds).                                             *)

\* the values of type number held under primaryKey
NumericIds(items, primaryKey) ==
  {Prop(items[i], primaryKey).n :
     i \in {j \in 1..Len(items) : Prop(items[j], primaryKey).t = "num"}}

\* the greatest element of a non-empty set of integers
Greatest(S) == CHOOSE x \in S : \A y \in S : y <= x

\* a POST on the collection URL whose body has no id: post calls genId
CallsGenId ==
  /\ ReadAll
  /\ req.method = "POST"
  /\ LastLink.restId = Undefined
  /\ LastLink.primaryKey = "id"
  /\ Prop(Body, "id") = Undefined

\* C21 as stated: genId gives one more than the greatest value of type number
\* held under the primary key, 1 when no item holds one (an item with a
\* value of another type or none counting as zero) and for the empty
\* collection.
C21_GenIdIsMaxPlusOne ==
  CallsGenId =>
    LET ids == NumericIds(Before, "id")
    IN genId(Before, "id") = IF ids = {} THEN 1 ELSE Greatest(ids) + 1

\* C21: genId gives one more than the greatest of zero and the values of type
\* number held under the primary key; 1 for the empty collection.
C21_GenIdIsMaxWithZeroPlusOne ==
  CallsGenId => genId(Before, "id") = Greatest(NumericIds(Before, "id") \cup {0}) + 1

\* the collection [{id: 'x'}, {id: 2}]: the POST without id stored the id 3
C21_Witness ==
  /\ CallsGenId
  /\ Before = << [id |-> Str("x")], [id |-> Num(2)] >>
  /\ genId(Before, "id") = 3
  /\ res.kind = "response"
  /\ res.status = 201
  /\ After = Append(Before, [id |-> Num(3)])

\* C26 as stated: a GET on an item URL is answered 200 with the one item
\* exactly when the collection holds an item with that id under the comparison
\* PUT, PATCH and DELETE find items with, for every id, 0 included; so a GET
\* that follows the POST or PUT that created the item finds it.
C26_GetFindsWhatWritesFind ==
  (/\ ReadAll
   /\ req.method = "GET"
   /\ LastLink.restId # Undefined) =>
    IF HasId(Before, LastLink.primaryKey, LastLink.restId)
    THEN /\ res.kind = "response"
         /\ res.status = 200
         /\ res.body = << Before[Target] >>
    ELSE res = ErrorResponse(404)

\* no two items of the list are equal (==) under the primary key
DistinctIds(items, primaryKey) ==
  \A i, j \in 1..Len(items) :
     i < j => ~LooseEq(Prop(items[i], primaryKey), Prop(items[j], primaryKey))

\* every dataCallback of the tree returns items with distinct ids on its GET call
RECURSIVE DistinctData(_)
DistinctData(tree) ==
  \A i \in 1..Len(tree) :
     /\ DistinctIds(tree[i].data, "id")
     /\ DistinctData(tree[i].children)

\* C27 as stated: when the dataCallbacks return initial items with pairwise
\* distinct ids (and the items they are given on the other calls), no
\* collection ever holds two items whose ids are equal under ==.
C27_IdsStayUnique ==
  DistinctData(routes) =>
    \A K \in DOMAIN cachedData : DistinctIds(cachedData[K].writeableData, "id")

\* the initial items of the collection all have ids of type number
NumericData ==
  \A i \in 1..Len(routes[1].data) : Prop(routes[1].data[i], "id").t = "num"

\* C28 as stated: on a collection whose initial ids are numbers, after any
\* requests, a POST on the collection URL whose body omits the id is answered
\* 201 and appends the body with the id of genId, every item there was staying
\* as it is.
C28_GeneratedIdIsNew ==
  (NumericData /\ CallsGenId) =>
    /\ res.kind = "response"
    /\ res.status = 201
    /\ After = Append(Before, SetProp(Body, "id", Num(genId(Before, "id"))))

-----------------------------------------------------------------------------
(* Claims about held responses (SpecDelay).                                *)

\* C22 as stated: every envelope, success or error, is held for the delay, so
\* with the one delay of the configuration the envelopes are delivered in the
\* order of dispatch: the observable that emits is the oldest in flight.
C22_DeliveredInDispatchOrder ==
  [][Len(inflight') < Len(inflight) => inflight' = Tail(inflight)]_vars

\* a request changes no response that is held
HeldUnchanged ==
  \A i \in 1..Len(inflight) :
     /\ inflight'[i].req = inflight[i].req
     /\ inflight'[i].res = inflight[i].res

\* the record of the request's collection after the request is what the
\* handler of its method makes of the record before it
WriteOnCurrentRecord ==
  LET chainParam == chainParams'[Len(chainParams')]
      cacheKey == chainParam.cacheKey
  IN (/\ res'.kind = "response"
      /\ req'.method # "GET"
      /\ chainParam.route.dataCallback # "none"
      /\ cacheKey \in DOMAIN cachedData) =>
       cachedData'[cacheKey].writeableData =
         callRequestMethod(req', chainParam, cachedData[cacheKey]).items

\* C29 as stated: with several requests in flight, the whole
\* read-modify-write of a request happens in its dispatch step, on the store
\* as the requests dispatched before it left it, and no emission changes the
\* store; the status and the body of a held response stay what they were at
\* its dispatch, whatever the requests dispatched during its delay write.
C29_HeldResponsesKeepTheirBody ==
  [][/\ nreq' = nreq + 1 => (HeldUnchanged /\ WriteOnCurrentRecord)
     /\ Len(inflight') < Len(inflight) =>
          /\ cachedData' = cachedData
          /\ localStorage' = localStorage
          /\ \E i \in 1..Len(inflight) : inflight' = RemoveAt(inflight, i)]_vars

-----------------------------------------------------------------------------
(* Claims about writes that fail (SpecThrow).                              *)

\* readonlyData is the projection of writeableData for the route
Projected(mockData, route) ==
  /\ Len(mockData.readonlyData) = Len(mockData.writeableData)
  /\ \A i \in 1..Len(mockData.writeableData) :
       mockData.readonlyData[i] =
         pickAllPropertiesAsGetters(route, mockData.writeableData[i])

\* C24 as stated: after every request, whatever its outcome, the readonlyData
\* of each record of its chain is the projection of its writeableData, and a
\* request answered with an error envelope leaves the writeableData of every
\* record as it was.
C24_RecordsReplacedWholesale ==
  [][nreq' = nreq + 1 =>
       /\ \A k \in 1..Len(chainParams') :
            chainParams'[k].cacheKey \in DOMAIN cachedData' =>
              Projected(cachedData'[chainParams'[k].cacheKey], chainParams'[k].route)
       /\ res'.kind = "error" =>
            \A K \in DOMAIN cachedData :
               cachedData'[K].writeableData = cachedData[K].writeableData]_vars
====
